---- MODULE Spec2Model ----
(***************************************************************************)
(* A model of graphpipe's backend: the Graph store (graph.rs), the cached   *)
(* Layout (layout.rs, graph_data.rs), the background layout task            *)
(* (bg_layout.rs) and the request handlers that share GraphData with it     *)
(* (server.rs); and the StableIdAllocator (stable_ids.rs), which no other   *)
(* file of the backend uses.                                                *)
(*                                                                          *)
(* The specifications are given over the same variables:                    *)
(*   SpecGraph    the Graph API called directly (add_node, ensure_node,     *)
(*                add_edge) in any order;                                   *)
(*   Spec         the running server: BgLayout::run against the handlers    *)
(*                list / add / post_graphviz, all of them behind the one    *)
(*                tokio Mutex of GraphDataType;                             *)
(*   SpecFair     Spec without exit, under the runtime's scheduling;        *)
(*   SpecEdit     SpecFair with one client and a few requests;              *)
(*   SpecExit     a server whose client calls exit, same scheduling;        *)
(*   SpecOneWriter Spec with one writing client, never calling exit;        *)
(*   SpecPub      the server with subscribers to BgControl::updates;        *)
(*   SpecFault    SpecPub with ticks that fail;                             *)
(*   SpecLock     the scheduler, one writer and the reader, with ticks that *)
(*                fail, under the runtime's scheduling;                     *)
(*   SpecChannel  the broadcast channel of BgLayout::start used directly;   *)
(*   SpecLayout   Layout::new and Layout::apply called directly on graphs   *)
(*                built with add_node and add_edge;                         *)
(*   SpecIds      a StableIdAllocator (stable_ids.rs) used directly.        *)
(***************************************************************************)
EXTENDS Integers, Sequences, FiniteSets, TLC

(***************************************************************************)
(* Bounds of the model.                                                     *)
(***************************************************************************)
\* stored edges are capped: an edit that would exceed the cap is not issued
MaxEdges == 2
\* id_counter is capped: an id generation that would exceed it is not issued
MaxCounter == 3
\* number of writer requests (add / post_graphviz) issued in one behaviour
MaxWrites == 2
\* stored edges in one behaviour of SpecLayout
MaxLayoutEdges == 3
\* Updates sent through the channel in one behaviour of SpecChannel
MaxSends == 18
\* fresh ids one StableIdAllocator generates in one behaviour of SpecIds
MaxIds == 4
\* ticks a freshly built simulation needs before it reports finished
\* (fjadra: alpha decays below alpha_min after about 300 ticks)
TicksToFinish == 2

(***************************************************************************)
(* Input domains.                                                           *)
(***************************************************************************)
None == <<"None">>
Some(v) == <<"Some", v>>
Unwrap(o) == o[2]
NodeIds == {"a", "b"}
Labels == {"L"}
\* positions are pairs of numbers (Pos(f64, f64))
PosValues == {<<0, 0>>, <<2, 2>>}
OptPos == {None} \cup {Some(p) : p \in PosValues}
\* explicit edge ids a client may supply: a plain one, and one in the
\* format of the generated ids
ExplicitEdgeIds == {"e1", "_gpe2"}


(***************************************************************************)
(* BiMap<L, R> (crate bimap): a set of (left, right) pairs in which every   *)
(* left and every right occurs at most once.  insert overwrites: any pair   *)
(* holding the same left or the same right is removed first.                *)
(***************************************************************************)
BiMapNew == {}
BiMapInsert(m, l, r) == {p \in m : p[1] # l /\ p[2] # r} \cup {<<l, r>>}
ContainsLeft(m, l) == \E p \in m : p[1] = l
ContainsRight(m, r) == \E p \in m : p[2] = r
GetByLeft(m, l) == IF ContainsLeft(m, l) THEN Some((CHOOSE p \in m : p[1] = l)[2]) ELSE None
GetByRight(m, r) == IF ContainsRight(m, r) THEN Some((CHOOSE p \in m : p[2] = r)[1]) ELSE None

(***************************************************************************)
(* Graph (graph.rs).  graph.nodes and graph.edges are petgraph's node and   *)
(* edge vectors: NodeIndex i is nodes[i + 1], EdgeIndex j is edges[j + 1].  *)
(***************************************************************************)
Node(id, label, pos) == [id |-> id, label |-> label, pos |-> pos]

GraphNew ==
    [nodes |-> <<>>, edges |-> <<>>, node_id_map |-> BiMapNew,
     edge_id_map |-> BiMapNew, id_counter |-> 0]

Ok(v) == <<"Ok", v>>
Err(e) == <<"Err", e>>
IsOk(r) == r[1] = "Ok"
IsErr(r) == r[1] = "Err"

resolve_node_index(g, node_id) ==
    IF ContainsLeft(g.node_id_map, node_id)
    THEN Ok(Unwrap(GetByLeft(g.node_id_map, node_id)))
    ELSE Err("NodeNotFound")

resolve_node_id(g, node_index) ==
    IF ContainsRight(g.node_id_map, node_index)
    THEN Ok(Unwrap(GetByRight(g.node_id_map, node_index)))
    ELSE Err("NodeIndexNotFound")

resolve_edge_index(g, edge_id) ==
    IF ContainsLeft(g.edge_id_map, edge_id)
    THEN Ok(Unwrap(GetByLeft(g.edge_id_map, edge_id)))
    ELSE Err("EdgeNotFound")

resolve_edge_id(g, edge_index) ==
    IF ContainsRight(g.edge_id_map, edge_index)
    THEN Ok(Unwrap(GetByRight(g.edge_id_map, edge_index)))
    ELSE Err("EdgeIndexNotFound")

\* format!("_gpe{}", id_counter)
GpeFormat(n) == "_gpe" \o ToString(n)

\* new_edge_id without its loop: the first candidate is returned even when
\* the edge map already holds it
new_edge_id_no_retry(g) ==
    LET g1 == [g EXCEPT !.id_counter = g.id_counter + 1]
    IN  [graph |-> g1, id |-> GpeFormat(g1.id_counter)]

\* the loop of new_edge_id: returns the graph with the advanced counter and
\* the generated id
RECURSIVE new_edge_id(_)
new_edge_id(g) ==
    LET g1 == [g EXCEPT !.id_counter = g.id_counter + 1]
        id == GpeFormat(g1.id_counter)
    IN  IF ~ContainsLeft(g1.edge_id_map, id)
        THEN [graph |-> g1, id |-> id]
        ELSE new_edge_id(g1)

\* add_node with the lookup of the id dropped: the node is always pushed
add_node_always_push(g, node) ==
    LET node_index == Len(g.nodes)
    IN  [g EXCEPT !.nodes = Append(g.nodes, node),
                  !.node_id_map = BiMapInsert(g.node_id_map, node.id, node_index)]

\* add_node that stores the node it is given over the node of the same id
add_node_overwrite(g, node) ==
    IF ContainsLeft(g.node_id_map, node.id)
    THEN [g EXCEPT !.nodes[Unwrap(GetByLeft(g.node_id_map, node.id)) + 1] = node]
    ELSE [g EXCEPT !.nodes = Append(g.nodes, node),
                   !.node_id_map = BiMapInsert(g.node_id_map, node.id, Len(g.nodes))]

add_node(g, node) ==
    IF ContainsLeft(g.node_id_map, node.id)
    THEN [g EXCEPT !.node_id_map =
              BiMapInsert(g.node_id_map, node.id, Unwrap(GetByLeft(g.node_id_map, node.id)))]
    ELSE [g EXCEPT !.nodes = Append(g.nodes, node),
                   !.node_id_map = BiMapInsert(g.node_id_map, node.id, Len(g.nodes))]

\* ensure_node without its lookup: the placeholder is pushed unconditionally
ensure_node_no_lookup(g, node_id) ==
    add_node_always_push(g, Node(node_id, node_id, None))

\* ensure_node that creates nothing
ensure_node_noop(g, node_id) == g

ensure_node(g, node_id) ==
    IF ContainsLeft(g.node_id_map, node_id)
    THEN g
    ELSE add_node(g, Node(node_id, node_id, None))

\* add_edge that records the edge before resolving the second endpoint
add_edge_partial(g, a, b, edge_id) ==
    LET gen == IF edge_id = None THEN new_edge_id(g) ELSE [graph |-> g, id |-> Unwrap(edge_id)]
        g1 == gen.graph
        ra == resolve_node_index(g1, a)
        rb == resolve_node_index(g1, b)
        edge_index == Len(g1.edges)
    IN  IF IsErr(ra) THEN [graph |-> g1, result |-> ra]
        ELSE IF IsErr(rb)
        THEN [graph |-> [g1 EXCEPT !.edge_id_map = BiMapInsert(g1.edge_id_map, gen.id, edge_index)],
              result |-> rb]
        ELSE [graph |-> [g1 EXCEPT
                  !.edges = Append(g1.edges, [source |-> ra[2], target |-> rb[2], id |-> gen.id]),
                  !.edge_id_map = BiMapInsert(g1.edge_id_map, gen.id, edge_index)],
              result |-> Ok("unit")]

\* add_edge returns the graph it leaves behind and its Result
add_edge(g, a, b, edge_id) ==
    LET gen == IF edge_id = None THEN new_edge_id(g) ELSE [graph |-> g, id |-> Unwrap(edge_id)]
        g1 == gen.graph
        ra == resolve_node_index(g1, a)
        rb == resolve_node_index(g1, b)
        edge_index == Len(g1.edges)
    IN  IF IsErr(ra) THEN [graph |-> g1, result |-> ra]
        ELSE IF IsErr(rb) THEN [graph |-> g1, result |-> rb]
        ELSE [graph |-> [g1 EXCEPT
                  !.edges = Append(g1.edges, [source |-> ra[2], target |-> rb[2], id |-> gen.id]),
                  !.edge_id_map = BiMapInsert(g1.edge_id_map, gen.id, edge_index)],
              result |-> Ok("unit")]

\* get_node_mut: the slot of the node, or NodeNotFound
get_node_mut(g, node_id) ==
    LET r == resolve_node_index(g, node_id)
    IN  IF IsErr(r) THEN r
        ELSE IF r[2] + 1 \in 1..Len(g.nodes) THEN r ELSE Err("NodeNotFound")

\* petgraph's neighbors_undirected: the targets of the outgoing edges, then
\* the sources of the incoming edges that are no self-loops, newest edge first
RECURSIVE Outgoing(_, _, _)
Outgoing(edges, idx, k) ==
    IF k = 0 THEN <<>>
    ELSE (IF edges[k].source = idx THEN <<edges[k].target>> ELSE <<>>)
             \o Outgoing(edges, idx, k - 1)

RECURSIVE Incoming(_, _, _)
Incoming(edges, idx, k) ==
    IF k = 0 THEN <<>>
    ELSE (IF edges[k].target = idx /\ edges[k].source # idx THEN <<edges[k].source>> ELSE <<>>)
             \o Incoming(edges, idx, k - 1)

neighbors_undirected(g, idx) ==
    Outgoing(g.edges, idx, Len(g.edges)) \o Incoming(g.edges, idx, Len(g.edges))

node_neighbors(g, node_id) ==
    LET r == resolve_node_index(g, node_id)
    IN  IF IsErr(r) THEN r
        ELSE LET nb == neighbors_undirected(g, r[2])
             IN  IF \E i \in 1..Len(nb) : nb[i] + 1 \notin 1..Len(g.nodes)
                 THEN Err("NodeIndexNotFound")
                 ELSE Ok([i \in 1..Len(nb) |-> g.nodes[nb[i] + 1]])

\* graph_response: the node weights and the edges as (source id, target id,
\* edge) triples; Err("panic") stands for the expect() on a missing endpoint
graph_response(g) ==
    IF \E j \in 1..Len(g.edges) :
           IsErr(resolve_node_id(g, g.edges[j].source)) \/ IsErr(resolve_node_id(g, g.edges[j].target))
    THEN Err("panic")
    ELSE Ok([nodes |-> g.nodes,
             edges |-> [j \in 1..Len(g.edges) |->
                          <<resolve_node_id(g, g.edges[j].source)[2],
                            resolve_node_id(g, g.edges[j].target)[2],
                            g.edges[j].id>>]])

(***************************************************************************)
(* Layout (layout.rs).  The simulation is fjadra's; of its state the model  *)
(* keeps the number of ticks done, which decides its finished flag.         *)
(***************************************************************************)
RECURSIVE SumPos(_, _)
SumPos(ns, k) ==
    IF k = 0 THEN [sum |-> <<0, 0>>, count |-> 0]
    ELSE LET rest == SumPos(ns, k - 1)
         IN  IF ns[k].pos # None
             THEN [sum |-> <<rest.sum[1] + Unwrap(ns[k].pos)[1], rest.sum[2] + Unwrap(ns[k].pos)[2]>>,
                   count |-> rest.count + 1]
             ELSE rest

update_node_pos(node, g) ==
    IF node.pos # None THEN Ok(node)
    ELSE LET nb == node_neighbors(g, node.id)
         IN  IF IsErr(nb) THEN nb
             ELSE LET avg == SumPos(nb[2], Len(nb[2]))
                  IN  IF avg.count > 0
                      THEN Ok([node EXCEPT !.pos =
                                  Some(<<avg.sum[1] \div avg.count, avg.sum[2] \div avg.count>>)])
                      ELSE Ok(node)

\* Layout::new that hands only the nodes that have a position to the
\* simulation, the links as they are
LayoutNew_positioned_only(g) ==
    LET nodes == [i \in 1..Len(g.nodes) |-> update_node_pos(g.nodes[i], g)]
        src(j) == resolve_node_id(g, g.edges[j].source)
        tgt(j) == resolve_node_id(g, g.edges[j].target)
    IN  IF \E i \in 1..Len(g.nodes) : IsErr(nodes[i])
        THEN Err("GraphError")
        ELSE IF \E j \in 1..Len(g.edges) : IsErr(src(j)) \/ IsErr(tgt(j))
        THEN Err("GraphError")
        ELSE Ok([nodes |-> SelectSeq([i \in 1..Len(g.nodes) |-> nodes[i][2]],
                                     LAMBDA n : n.pos # None),
                 links |-> [j \in 1..Len(g.edges) |-> <<g.edges[j].source, g.edges[j].target>>],
                 edges |-> [j \in 1..Len(g.edges) |-> <<src(j)[2], tgt(j)[2], g.edges[j].id>>],
                 ticks |-> 0])

LayoutNew(g) ==
    LET nodes == [i \in 1..Len(g.nodes) |-> update_node_pos(g.nodes[i], g)]
        src(j) == resolve_node_id(g, g.edges[j].source)
        tgt(j) == resolve_node_id(g, g.edges[j].target)
    IN  IF \E i \in 1..Len(g.nodes) : IsErr(nodes[i])
        THEN Err("GraphError")
        ELSE IF \E j \in 1..Len(g.edges) : IsErr(src(j)) \/ IsErr(tgt(j))
        THEN Err("GraphError")
        ELSE Ok([nodes |-> [i \in 1..Len(g.nodes) |-> nodes[i][2]],
                 links |-> [j \in 1..Len(g.edges) |-> <<g.edges[j].source, g.edges[j].target>>],
                 edges |-> [j \in 1..Len(g.edges) |-> <<src(j)[2], tgt(j)[2], g.edges[j].id>>],
                 ticks |-> 0])

\* the simulation's stopping criterion
sim_is_finished(ticks) == ticks >= TicksToFinish

\* step: one tick of the simulation; positions are the positions it reports
step(layout, positions) ==
    LET ticks == IF layout.ticks < TicksToFinish THEN layout.ticks + 1 ELSE layout.ticks
    IN  [layout |-> [layout EXCEPT !.ticks = ticks],
         nodes_edges |->
             [nodes |-> [i \in 1..Len(layout.nodes) |->
                            [layout.nodes[i] EXCEPT !.pos = Some(positions[i])]],
              edges |-> layout.edges],
         is_finished |-> sim_is_finished(ticks)]

\* apply: writes the positions of the result into the graph by stable id
RECURSIVE ApplyFrom(_, _, _)
ApplyFrom(ns, k, g) ==
    IF k > Len(ns) THEN [graph |-> g, result |-> Ok("unit")]
    ELSE LET r == get_node_mut(g, ns[k].id)
         IN  IF IsErr(r) THEN [graph |-> g, result |-> r]
             ELSE ApplyFrom(ns, k + 1,
                      IF ns[k].pos # None
                      THEN [g EXCEPT !.nodes[r[2] + 1].pos = ns[k].pos]
                      ELSE g)

\* (variant: a missing node ends the loop, the caller sees Ok)
apply_swallowed(nodes_edges, g) ==
    [graph |-> ApplyFrom(nodes_edges.nodes, 1, g).graph, result |-> Ok("unit")]

\* (variant: the k-th position of the result goes to the k-th stored node)
apply_by_slot(nodes_edges, g) ==
    [graph |-> [g EXCEPT !.nodes =
                   [i \in 1..Len(g.nodes) |->
                       IF i <= Len(nodes_edges.nodes) /\ nodes_edges.nodes[i].pos # None
                       THEN [g.nodes[i] EXCEPT !.pos = nodes_edges.nodes[i].pos]
                       ELSE g.nodes[i]]],
     result |-> Ok("unit")]

apply(nodes_edges, g) == ApplyFrom(nodes_edges.nodes, 1, g)

(***************************************************************************)
(* GraphData (graph_data.rs): the Graph and the cached Layout.              *)
(***************************************************************************)
is_empty(g) == Len(g.nodes) = 0

\* reset_layout that keeps the cached Layout
reset_layout_keep(l) == l

reset_layout(l) == None

\* update_layout that rebuilds the Layout on every call
update_layout_rebuild(g, l) == LayoutNew(g)

update_layout(g, l) ==
    IF l = None THEN LayoutNew(g) ELSE Ok(Unwrap(l))

(***************************************************************************)
(* BgLayout (bg_layout.rs): one tick, and the publish decision of run.      *)
(***************************************************************************)
\* do_layout without the is_empty test: a Layout is built for any graph
do_layout_no_idle(g, l, positions) ==
    LET built == update_layout(g, l)
    IN  IF IsErr(built)
        THEN [graph |-> g, layout |-> l, result |-> Err("GraphDataError")]
        ELSE LET st == step(built[2], positions)
                 ap == apply(st.nodes_edges, g)
             IN  [graph |-> ap.graph, layout |-> Some(st.layout),
                  result |-> IF IsErr(ap.result) THEN Err("LayoutError") ELSE Ok(st.is_finished)]

\* do_layout inside its critical section; positions are the positions the
\* simulation reports after the tick.  Returns what it leaves in GraphData
\* and its Result<bool>.
do_layout(g, l, positions) ==
    IF is_empty(g)
    THEN [graph |-> g, layout |-> l, result |-> Ok(TRUE)]
    ELSE LET built == update_layout(g, l)
         IN  IF IsErr(built)
             THEN [graph |-> g, layout |-> l, result |-> Err("GraphDataError")]
             ELSE LET st == step(built[2], positions)
                      ap == apply(st.nodes_edges, g)
                  IN  IF IsErr(ap.result)
                      THEN [graph |-> ap.graph, layout |-> Some(st.layout),
                            result |-> Err("LayoutError")]
                      ELSE [graph |-> ap.graph, layout |-> Some(st.layout),
                            result |-> Ok(st.is_finished)]

\* run that publishes after every tick
should_send_always(was, is) == TRUE

\* run that publishes only while the layout is still moving
should_send_unfinished(was, is) == ~is

\* the condition of run under which send_update is called
should_send(was, is) == ~was \/ ~is

\* run that never reads the exit flag
loop_continues_always(exit_flag) == TRUE

\* while !self.exit_requested.load(Relaxed)
loop_continues(exit_flag) == ~exit_flag

\* an expect() that lets an Err pass
expect_skips(result) == FALSE

\* .expect("Expected layout to succeed"): an Err panics
expect_panics(result) == IsErr(result)

\* run that stops at a failed send
send_result_checked(result) == IsOk(result)

\* let _ = self.send_update(&updates_tx).await: the Result is dropped
send_result_ignored(result) == TRUE

(***************************************************************************)
(* The Mutex of GraphDataType: lock().await completes only when no other    *)
(* task holds the guard.                                                    *)
(***************************************************************************)
Free == "free"

\* a lock that is handed out while another task holds it
lock_acquirable_unguarded(l) == TRUE

lock_acquirable(l) == l = Free

\* a guard that outlives the function that took it
drop_guard_kept(l) == l

\* the MutexGuard of do_layout and of send_update goes out of scope when the
\* function returns or unwinds
drop_guard(l) == Free

(***************************************************************************)
(* The writer handlers (server.rs) as sequences of edits.                   *)
(***************************************************************************)
\* one iteration of a loop of add, or one statement of parse_graphviz
apply_item(g, it) ==
    CASE it.t = "node" -> [graph |-> add_node(g, it.node), result |-> Ok("unit")]
      [] it.t = "edge" ->
            add_edge(ensure_node(ensure_node(g, it.a), it.b), it.a, it.b, it.edge_id)
      [] it.t = "gv_node" ->
            [graph |-> add_node(g, Node(it.id, it.label, None)), result |-> Ok("unit")]
      [] it.t = "gv_edge" ->
            LET gen == new_edge_id(g)
            IN  add_edge(ensure_node(ensure_node(gen.graph, it.a), it.b),
                         it.a, it.b, Some(gen.id))
      [] it.t = "gv_unsupported" ->
            [graph |-> new_edge_id(g).graph, result |-> Err("UnsupportedEdgeNode")]
      [] it.t = "gv_parse_error" ->
            [graph |-> g, result |-> Err("GraphvizParseError")]

\* the graph a whole request leaves behind (used to keep requests in bounds)
RECURSIVE RunItems(_, _)
RunItems(g, items) ==
    IF items = <<>> THEN g
    ELSE LET r == apply_item(g, Head(items))
         IN  IF IsErr(r.result) THEN r.graph ELSE RunItems(r.graph, Tail(items))

InBounds(g) == Len(g.edges) <= MaxEdges /\ g.id_counter <= MaxCounter

(***************************************************************************)
(* tokio::sync::broadcast, as BgLayout uses it.  The channel keeps the last *)
(* `capacity` values sent, each with its position; a Receiver holds the     *)
(* position of the value it reads next.                                     *)
(***************************************************************************)
\* broadcast::channel(10)
channel_capacity == 10

\* usize::next_power_of_two
RECURSIVE PowerOfTwoFrom(_, _)
PowerOfTwoFrom(p, n) == IF p >= n THEN p ELSE PowerOfTwoFrom(2 * p, n)
next_power_of_two(n) == PowerOfTwoFrom(1, n)

\* a channel that keeps exactly the number of values asked for
channel_exact(capacity) ==
    [buffer |-> <<>>, tail |-> 0, rx_cnt |-> 0, closed |-> FALSE, capacity |-> capacity]

\* broadcast::channel: the buffer has the capacity rounded up to a power of
\* two; the Receiver it returns is dropped at the end of start, so rx_cnt is 0
channel(capacity) ==
    [buffer |-> <<>>, tail |-> 0, rx_cnt |-> 0, closed |-> FALSE,
     capacity |-> next_power_of_two(capacity)]

\* Sender::send: Err(SendError) when there is no Receiver, else the value
\* takes the slot of the oldest one and the number of Receivers is returned
send(ch, value) ==
    IF ch.rx_cnt = 0
    THEN [chan |-> ch, result |-> Err(<<"SendError">>)]
    ELSE LET slot == [pos |-> ch.tail, val |-> value]
             kept == IF Len(ch.buffer) < ch.capacity THEN ch.buffer ELSE Tail(ch.buffer)
         IN  [chan |-> [ch EXCEPT !.buffer = Append(kept, slot), !.tail = ch.tail + 1],
              result |-> Ok(ch.rx_cnt)]

\* a Sender that outlives run
drop_sender_leak(ch) == ch

\* the Sender of run is dropped: the channel is closed
drop_sender(ch) == [ch EXCEPT !.closed = TRUE]

\* WeakSender::upgrade: None once every Sender is dropped
upgrade(ch) == IF ch.closed THEN None ELSE Some("Sender")

\* no Receiver yet
NoReceiver == [st |-> "none", next |-> 0, joined |-> 0, last |-> [result |-> <<"none">>, pos |-> 0]]

\* the position of the oldest value the channel still holds
oldest(ch) == IF ch.tail > ch.capacity THEN ch.tail - ch.capacity ELSE 0

\* a subscription that starts at the oldest value the channel still holds
subscribe_replay(ch) ==
    [chan |-> [ch EXCEPT !.rx_cnt = ch.rx_cnt + 1],
     receiver |-> [st |-> "live", next |-> oldest(ch), joined |-> ch.tail, last |-> [result |-> <<"none">>, pos |-> 0]]]

\* Sender::subscribe: a Receiver that reads from the current tail on
subscribe(ch) ==
    [chan |-> [ch EXCEPT !.rx_cnt = ch.rx_cnt + 1],
     receiver |-> [st |-> "live", next |-> ch.tail, joined |-> ch.tail, last |-> [result |-> <<"none">>, pos |-> 0]]]

\* the slot holding position pos
slot_at(ch, pos) == ch.buffer[CHOOSE i \in 1..Len(ch.buffer) : ch.buffer[i].pos = pos]

\* Receiver::recv at position next: <<"Pending">> while there is nothing to
\* read and a Sender lives; else the Result and the position to read next
recv(ch, next) ==
    IF next = ch.tail
    THEN (IF ch.closed
          THEN [result |-> Err(<<"Closed">>), next |-> next]
          ELSE [result |-> <<"Pending">>, next |-> next])
    ELSE IF next < oldest(ch)
    THEN [result |-> Err(<<"Lagged", oldest(ch) - next>>), next |-> oldest(ch)]
    ELSE [result |-> Ok(slot_at(ch, next).val), next |-> next + 1]

\* Receiver::drop
drop_receiver_of(ch) == [ch EXCEPT !.rx_cnt = ch.rx_cnt - 1]

(***************************************************************************)
(* StableIdAllocator (stable_ids.rs): the free list and the next fresh id.  *)
(***************************************************************************)
StableIdAllocatorNew == [free_ids |-> <<>>, next_id |-> 0]

\* acquire_id that takes the id released last
acquire_id_pop_back(a) ==
    IF a.free_ids # <<>>
    THEN [allocator |-> [a EXCEPT !.free_ids = SubSeq(a.free_ids, 1, Len(a.free_ids) - 1)],
          id |-> a.free_ids[Len(a.free_ids)]]
    ELSE [allocator |-> [a EXCEPT !.next_id = a.next_id + 1], id |-> a.next_id]

\* acquire_id returns the allocator it leaves behind and the id
acquire_id(a) ==
    IF a.free_ids # <<>>
    THEN [allocator |-> [a EXCEPT !.free_ids = Tail(a.free_ids)], id |-> Head(a.free_ids)]
    ELSE [allocator |-> [a EXCEPT !.next_id = a.next_id + 1], id |-> a.next_id]

release_id(a, id_value) == [a EXCEPT !.free_ids = Append(a.free_ids, id_value)]

(***************************************************************************)
(* State.                                                                   *)
(***************************************************************************)
Writers == {"w1", "w2"}
Readers == {"r1"}
Subscribers == {"s1", "s2"}
Bg == "bg"

VARIABLES
    graph,           \* GraphData.graph
    layout,          \* GraphData.layout: Option<Layout>
    lock,            \* the holder of the Mutex of GraphData, or Free
    call,            \* SpecGraph: the last Graph call made and its result
    spc,             \* BgLayout::run: where the task is
    was_finished,    \* run: was_finished
    is_finished,     \* run: is_finished of the current iteration
    exit_requested,  \* BgLayout.exit_requested
    iter_sent,       \* run: send_update was called in the current iteration
    settled_sent,    \* updates sent since the finished flag last became true
    reset_pending,   \* a handler called reset_layout since the last tick
    wpc,             \* per writer request: where its handler is
    wreq,            \* per writer request: the edits its handler has left
    writes,          \* number of writer requests issued
    rpc,             \* per list request: where its handler is
    iter_empty,      \* run: do_layout found the graph empty in the current iteration
    ticks_after_exit,\* calls of do_layout begun since exit() stored the flag
    tick_failed,     \* run: the last do_layout returned an Err
    chan,            \* the broadcast channel behind updates_tx
    rx,              \* per subscriber: its Receiver
    sent_log,        \* every Update the channel accepted, in the order of the sends
    allocator,       \* a StableIdAllocator: free_ids and next_id
    outstanding      \* the ids acquire_id returned that were not released since

gdata == <<graph, layout>>
bgvars == <<spc, was_finished, is_finished, iter_sent, settled_sent, iter_empty,
            ticks_after_exit, tick_failed>>
pubvars == <<chan, rx, sent_log>>
wvars == <<wpc, wreq, writes>>
idvars == <<allocator, outstanding>>
vars == <<graph, layout, lock, call, spc, was_finished, is_finished, exit_requested,
          iter_sent, settled_sent, reset_pending, wpc, wreq, writes, rpc,
          iter_empty, ticks_after_exit, tick_failed, chan, rx, sent_log,
          allocator, outstanding>>

\* the state after main: an empty Graph, no Layout, the task spawned
Init ==
    /\ graph = GraphNew
    /\ layout = None
    /\ lock = Free
    /\ call = [op |-> "new"]
    /\ spc = "loop"
    /\ was_finished = FALSE
    /\ is_finished = FALSE
    /\ exit_requested = FALSE
    /\ iter_sent = FALSE
    /\ settled_sent = 0
    /\ reset_pending = FALSE
    /\ wpc = [w \in Writers |-> "idle"]
    /\ wreq = [w \in Writers |-> <<>>]
    /\ writes = 0
    /\ rpc = [r \in Readers |-> "idle"]
    /\ iter_empty = FALSE
    /\ ticks_after_exit = 0
    /\ tick_failed = FALSE
    /\ chan = channel(channel_capacity)
    /\ rx = [s \in Subscribers |-> NoReceiver]
    /\ sent_log = <<>>
    /\ allocator = StableIdAllocatorNew
    /\ outstanding = {}

(***************************************************************************)
(* SpecGraph: the Graph API called directly, in any order.                  *)
(***************************************************************************)
NodeInputs == {Node(id, label, pos) : id \in NodeIds, label \in Labels, pos \in OptPos}
EdgeIdInputs == {None} \cup {Some(e) : e \in ExplicitEdgeIds}
server == <<layout, lock, spc, was_finished, is_finished, exit_requested, iter_sent,
            settled_sent, reset_pending, wpc, wreq, writes, rpc,
            iter_empty, ticks_after_exit, tick_failed, chan, rx, sent_log, idvars>>

call_add_node ==
    \E node \in NodeInputs :
        /\ graph' = add_node(graph, node)
        /\ call' = [op |-> "add_node", node |-> node]
        /\ UNCHANGED server

call_ensure_node ==
    \E id \in NodeIds :
        /\ graph' = ensure_node(graph, id)
        /\ call' = [op |-> "ensure_node", id |-> id]
        /\ UNCHANGED server

call_add_edge ==
    \E a \in NodeIds, b \in NodeIds, edge_id \in EdgeIdInputs :
        LET r == add_edge(graph, a, b, edge_id)
        IN  /\ Len(graph.edges) < MaxEdges
            /\ r.graph.id_counter <= MaxCounter
            /\ graph' = r.graph
            /\ call' = [op |-> "add_edge", a |-> a, b |-> b, edge_id |-> edge_id,
                        result |-> r.result, counter_before |-> graph.id_counter]
            /\ UNCHANGED server

NextGraph == call_add_node \/ call_ensure_node \/ call_add_edge

SpecGraph == Init /\ [][NextGraph]_vars

(***************************************************************************)
(* Spec: the running server.                                                *)
(***************************************************************************)
\* the positions a tick may report for n nodes: the simulation's output is
\* abstracted to a choice among SimPosValues
SimPosValues == {<<2, 2>>}
SimPositions(n) == [1..n -> SimPosValues]

\* the requests a client may send
ReqNodes == {Node(id, id, pos) : id \in NodeIds, pos \in {None, Some(<<0, 0>>)}}
EndPairs == {<<"a", "b">>, <<"b", "a">>, <<"a", "a">>}
ReqEdges == {[t |-> "edge", a |-> ab[1], b |-> ab[2], edge_id |-> e] :
                ab \in EndPairs, e \in {None, Some("e1")}}
AddRequests ==
    {ns \o es : ns \in {<<>>} \cup {<<[t |-> "node", node |-> n]>> : n \in ReqNodes},
                es \in {<<>>} \cup {<<e>> : e \in ReqEdges}}
GraphvizStatements ==
    {[t |-> "gv_node", id |-> id, label |-> id] : id \in NodeIds}
        \cup {[t |-> "gv_edge", a |-> ab[1], b |-> ab[2]] : ab \in EndPairs}
        \cup {[t |-> "gv_unsupported"]}
GraphvizRequests ==
    {<<[t |-> "gv_parse_error"]>>, <<>>}
        \cup {<<st>> : st \in GraphvizStatements}
        \cup {<<[t |-> "gv_node", id |-> "a", label |-> "a"], st>> : st \in GraphvizStatements}

\* the end of an iteration of run: was_finished = is_finished
EndIteration(sent) ==
    /\ was_finished' = is_finished
    /\ iter_sent' = sent
    /\ settled_sent' =
           IF is_finished
           THEN (IF sent /\ settled_sent < 2 THEN settled_sent + 1 ELSE settled_sent)
           ELSE 0
    /\ spc' = "loop"
    /\ UNCHANGED is_finished

\* while !self.exit_requested.load(Relaxed)
run_loop ==
    /\ spc = "loop"
    /\ spc' = IF loop_continues(exit_requested) THEN "do_layout" ELSE "ended"
    /\ chan' = IF loop_continues(exit_requested) THEN chan ELSE drop_sender(chan)
    /\ iter_sent' = FALSE
    /\ UNCHANGED <<gdata, lock, call, idvars, was_finished, is_finished, exit_requested,
                   settled_sent, reset_pending, wvars, rpc, iter_empty,
                   ticks_after_exit, tick_failed, rx, sent_log>>

\* do_layout: self.graph_data.lock().await
do_layout_lock ==
    /\ spc = "do_layout"
    /\ lock_acquirable(lock)
    /\ lock' = Bg
    /\ spc' = "tick"
    /\ ticks_after_exit' =
           IF exit_requested /\ ticks_after_exit < 2
           THEN ticks_after_exit + 1 ELSE ticks_after_exit
    /\ UNCHANGED <<gdata, call, idvars, was_finished, is_finished, exit_requested, iter_sent,
                   settled_sent, reset_pending, wvars, rpc, iter_empty, tick_failed,
                   pubvars>>

\* the return of do_layout with the Result r and the expect() of run
TickReturn(r) ==
    /\ graph' = r.graph
    /\ layout' = r.layout
    /\ tick_failed' = IsErr(r.result)
    /\ IF expect_panics(r.result)
       THEN /\ is_finished' = is_finished
            /\ spc' = "panicked"
            /\ chan' = drop_sender(chan)
       ELSE /\ is_finished' = (IF IsOk(r.result) THEN r.result[2] ELSE is_finished)
            /\ spc' = "sleep"
            /\ chan' = chan
    /\ iter_empty' = is_empty(graph)
    /\ lock' = drop_guard(lock)
    /\ reset_pending' = FALSE
    /\ UNCHANGED <<call, idvars, was_finished, exit_requested, iter_sent, settled_sent, wvars, rpc,
                   ticks_after_exit, rx, sent_log>>

\* do_layout: the tick under the lock
do_layout_tick ==
    /\ spc = "tick"
    /\ \E positions \in SimPositions(Len(graph.nodes)) :
           TickReturn(do_layout(graph, layout, positions))

\* the sleep, then the publish decision
run_sleep ==
    /\ spc = "sleep"
    /\ IF should_send(was_finished, is_finished)
       THEN /\ spc' = "send_update"
            /\ UNCHANGED <<was_finished, is_finished, iter_sent, settled_sent>>
       ELSE EndIteration(FALSE)
    /\ UNCHANGED <<gdata, lock, call, idvars, exit_requested, reset_pending, wvars, rpc,
                   iter_empty, ticks_after_exit, tick_failed, pubvars>>

\* send_update: self.graph_data.lock().await
send_update_lock ==
    /\ spc = "send_update"
    /\ lock_acquirable(lock)
    /\ lock' = Bg
    /\ spc' = "snapshot"
    /\ UNCHANGED <<gdata, call, idvars, was_finished, is_finished, exit_requested, iter_sent,
                   settled_sent, reset_pending, wvars, rpc, iter_empty,
                   ticks_after_exit, tick_failed, pubvars>>

\* send_update: the snapshot and the send, then the end of the iteration
send_update ==
    /\ spc = "snapshot"
    /\ IF IsErr(graph_response(graph))
       THEN /\ spc' = "panicked"
            /\ chan' = drop_sender(chan)
            /\ UNCHANGED <<was_finished, is_finished, iter_sent, settled_sent, sent_log>>
       ELSE LET update == [graph |-> graph_response(graph)[2]]
                r == send(chan, update)
            IN  /\ chan' = r.chan
                /\ sent_log' = IF IsOk(r.result) THEN Append(sent_log, update) ELSE sent_log
                /\ IF send_result_ignored(r.result)
                   THEN EndIteration(TRUE)
                   ELSE /\ spc' = "ended"
                        /\ UNCHANGED <<was_finished, is_finished, iter_sent, settled_sent>>
    /\ lock' = drop_guard(lock)
    /\ UNCHANGED <<gdata, call, idvars, exit_requested, reset_pending, wvars, rpc, iter_empty,
                   ticks_after_exit, tick_failed, rx>>

\* BgControl::exit
exit ==
    /\ ~exit_requested
    /\ exit_requested' = TRUE
    /\ UNCHANGED <<gdata, lock, call, idvars, bgvars, reset_pending, wvars, rpc, pubvars>>

\* add / post_graphviz: data.lock().await; data.reset_layout()
HandlerEnter(w, requests) ==
    /\ wpc[w] = "idle"
    /\ writes < MaxWrites
    /\ writes' = writes + 1
    /\ lock_acquirable(lock)
    /\ \E req \in requests :
           /\ InBounds(RunItems(graph, req))
           /\ wreq' = [wreq EXCEPT ![w] = req]
    /\ lock' = w
    /\ layout' = reset_layout(layout)
    /\ reset_pending' = TRUE
    /\ wpc' = [wpc EXCEPT ![w] = "body"]
    /\ UNCHANGED <<graph, call, idvars, bgvars, exit_requested, rpc, pubvars>>

add_enter(w) == HandlerEnter(w, AddRequests)

post_graphviz_enter(w) == HandlerEnter(w, GraphvizRequests)

\* one iteration of a loop of add or of parse_graphviz; an Err returns
handler_item(w) ==
    /\ wpc[w] = "body"
    /\ wreq[w] # <<>>
    /\ LET r == apply_item(graph, Head(wreq[w]))
       IN  /\ graph' = r.graph
           /\ IF IsErr(r.result)
              THEN /\ wreq' = [wreq EXCEPT ![w] = <<>>]
                   /\ wpc' = [wpc EXCEPT ![w] = "idle"]
                   /\ lock' = Free
              ELSE /\ wreq' = [wreq EXCEPT ![w] = Tail(wreq[w])]
                   /\ UNCHANGED <<wpc, lock>>
    /\ UNCHANGED <<layout, call, idvars, bgvars, exit_requested, reset_pending, writes, rpc, pubvars>>

\* the handler returns Ok and drops the guard
handler_return(w) ==
    /\ wpc[w] = "body"
    /\ wreq[w] = <<>>
    /\ wpc' = [wpc EXCEPT ![w] = "idle"]
    /\ lock' = Free
    /\ UNCHANGED <<gdata, call, idvars, bgvars, exit_requested, reset_pending, wreq, writes, rpc,
                   pubvars>>

\* list: data.lock().await
list_lock(r) ==
    /\ rpc[r] = "idle"
    /\ lock_acquirable(lock)
    /\ lock' = r
    /\ rpc' = [rpc EXCEPT ![r] = "snapshot"]
    /\ UNCHANGED <<gdata, call, idvars, bgvars, exit_requested, reset_pending, wvars, pubvars>>

\* list: the snapshot, then the guard is dropped
list(r) ==
    /\ rpc[r] = "snapshot"
    /\ rpc' = [rpc EXCEPT ![r] = "idle"]
    /\ lock' = Free
    /\ UNCHANGED <<gdata, call, idvars, bgvars, exit_requested, reset_pending, wvars, pubvars>>

\* BgControl::updates: upgrade the WeakSender and subscribe; todo!() panics
\* in the caller when the Sender is gone
updates(s) ==
    /\ rx[s].st = "none"
    /\ IF upgrade(chan) # None
       THEN LET r == subscribe(chan)
            IN  chan' = r.chan /\ rx' = [rx EXCEPT ![s] = r.receiver]
       ELSE chan' = chan /\ rx' = [rx EXCEPT ![s].st = "panicked"]
    /\ UNCHANGED <<gdata, lock, call, idvars, bgvars, exit_requested, reset_pending, wvars, rpc,
                   sent_log>>

\* a subscriber's recv().await completes
recv_update(s) ==
    /\ rx[s].st = "live"
    /\ LET r == recv(chan, rx[s].next)
       IN  /\ r.result # <<"Pending">>
           /\ rx' = [rx EXCEPT ![s].next = r.next,
                               ![s].last = [result |-> r.result, pos |-> rx[s].next]]
    /\ UNCHANGED <<gdata, lock, call, idvars, bgvars, exit_requested, reset_pending, wvars, rpc,
                   chan, sent_log>>

\* a subscriber drops its Receiver
drop_receiver(s) ==
    /\ rx[s].st = "live"
    /\ chan' = drop_receiver_of(chan)
    /\ rx' = [rx EXCEPT ![s].st = "dropped"]
    /\ UNCHANGED <<gdata, lock, call, idvars, bgvars, exit_requested, reset_pending, wvars, rpc,
                   sent_log>>

BgNext ==
    \/ run_loop
    \/ do_layout_lock
    \/ do_layout_tick
    \/ run_sleep
    \/ send_update_lock
    \/ send_update

WriterNext(w) ==
    \/ add_enter(w)
    \/ post_graphviz_enter(w)
    \/ handler_item(w)
    \/ handler_return(w)

ReaderNext(r) ==
    \/ list_lock(r)
    \/ list(r)

Next ==
    \/ BgNext
    \/ exit
    \/ \E w \in Writers : WriterNext(w)
    \/ \E r \in Readers : ReaderNext(r)

Spec == Init /\ [][Next]_vars

(***************************************************************************)
(* SpecPub: the server with the control handle in use: besides the          *)
(* requests of Spec, clients subscribe through BgControl::updates, receive  *)
(* and drop their Receivers.                                                *)
(***************************************************************************)
SubscriberNext(s) ==
    \/ updates(s)
    \/ recv_update(s)
    \/ drop_receiver(s)

\* the clients of SpecPub: one writer sending add requests, one subscriber
PubWriters == {"w1"}
PubSubscribers == {"s1"}
PubRequests ==
    {<<>>,
     <<[t |-> "node", node |-> Node("a", "a", None)]>>,
     <<[t |-> "edge", a |-> "a", b |-> "b", edge_id |-> None]>>}

pub_add_enter(w) == HandlerEnter(w, PubRequests)

NextPub ==
    \/ BgNext
    \/ exit
    \/ \E w \in PubWriters : pub_add_enter(w) \/ handler_item(w) \/ handler_return(w)
    \/ \E s \in PubSubscribers : SubscriberNext(s)

SpecPub == Init /\ [][NextPub]_vars

\* SpecOneWriter: Spec with all requests coming from one client, one after
\* the other (the Mutex serialises the handlers of several clients anyway)
NextOneWriter ==
    \/ BgNext
    \/ \E w \in PubWriters : WriterNext(w)
    \/ \E r \in Readers : ReaderNext(r)

SpecOneWriter == Init /\ [][NextOneWriter]_vars

(***************************************************************************)
(* SpecFair: the server while exit is never called (nothing in main calls   *)
(* BgControl::exit), with the scheduling the runtime guarantees: the        *)
(* spawned task and the handlers keep running, and the Mutex is fair        *)
(* (tokio's Mutex hands the lock out in FIFO order), so a task waiting for  *)
(* the lock gets it.                                                        *)
(***************************************************************************)
NextRunning ==
    \/ BgNext
    \/ \E w \in Writers : WriterNext(w)
    \/ \E r \in Readers : ReaderNext(r)

\* a tick that has started returns (a do_layout_tick step)
TickReturns == spc = "tick" /\ spc' \in {"sleep", "panicked"}

\* a handler that holds the lock goes on with its next edit (a handler_item step)
ItemDone(w) ==
    /\ wpc[w] = "body"
    /\ wreq[w] # <<>>
    /\ wreq' \in {[wreq EXCEPT ![w] = Tail(wreq[w])], [wreq EXCEPT ![w] = <<>>]}

Fairness ==
    /\ WF_vars(run_loop)
    /\ SF_vars(do_layout_lock)
    /\ WF_spc(TickReturns)
    /\ WF_vars(run_sleep)
    /\ SF_vars(send_update_lock)
    /\ WF_vars(send_update)
    /\ \A w \in Writers : WF_wreq(ItemDone(w)) /\ WF_vars(handler_return(w))
    /\ \A r \in Readers : WF_vars(list(r))

SpecFair == Init /\ [][NextRunning]_vars /\ Fairness

\* SpecEdit: SpecFair with one client that sends a few add and graphviz
\* requests, each adding a node, an edge, or both
EditRequests ==
    {<<[t |-> "node", node |-> Node("a", "a", None)]>>,
     <<[t |-> "node", node |-> Node("b", "b", Some(<<0, 0>>))],
       [t |-> "edge", a |-> "b", b |-> "a", edge_id |-> None]>>,
     <<[t |-> "gv_node", id |-> "b", label |-> "b"]>>,
     <<[t |-> "gv_edge", a |-> "a", b |-> "b"]>>,
     <<[t |-> "gv_node", id |-> "a", label |-> "a"], [t |-> "gv_unsupported"]>>}

edit_enter(w) == HandlerEnter(w, EditRequests)

NextEdit ==
    \/ BgNext
    \/ \E w \in PubWriters : edit_enter(w) \/ handler_item(w) \/ handler_return(w)

SpecEdit == Init /\ [][NextEdit]_vars /\ Fairness

(***************************************************************************)
(* SpecChannel: the channel of start used directly, in any order: the send  *)
(* of send_update, BgControl::updates, the subscribers' recv and drop, and  *)
(* the drop of the Sender at the end of run.                                *)
(***************************************************************************)
not_channel == <<gdata, lock, bgvars, exit_requested, reset_pending, wvars, rpc, idvars>>

\* updates_tx.send(update): the Update carries the number of the snapshot
call_send ==
    /\ ~chan.closed
    /\ chan.tail < MaxSends
    /\ LET update == [graph |-> <<"snapshot", Len(sent_log)>>]
           r == send(chan, update)
       IN  /\ chan' = r.chan
           /\ sent_log' = IF IsOk(r.result) THEN Append(sent_log, update) ELSE sent_log
           /\ call' = [op |-> "send", result |-> r.result]
    /\ UNCHANGED <<rx, not_channel>>

\* run returns: its Sender is dropped
call_drop_sender ==
    /\ ~chan.closed
    /\ chan' = drop_sender(chan)
    /\ call' = [op |-> "drop_sender"]
    /\ UNCHANGED <<rx, sent_log, not_channel>>

NextChannel ==
    \/ call_send
    \/ call_drop_sender
    \/ \E s \in Subscribers : SubscriberNext(s)

SpecChannel == Init /\ [][NextChannel]_vars

(***************************************************************************)
(* SpecLayout: Layout::new and Layout::apply called directly on graphs      *)
(* built from up to three nodes and MaxLayoutEdges edges.  The positions    *)
(* are chosen so that the means over one, two and three of them are whole   *)
(* numbers.                                                                 *)
(***************************************************************************)
LayoutNodeIds == {"x", "y", "z"}
LayoutPosValues == {<<0, 0>>, <<6, 6>>}
LayoutNodeInputs ==
    {Node(id, id, None) : id \in LayoutNodeIds}
        \cup {Node(id, id, Some(p)) : id \in {"y", "z"}, p \in LayoutPosValues}
LayoutEndPairs ==
    {<<"x", "y">>, <<"y", "x">>, <<"x", "z">>, <<"x", "x">>}

\* the results handed to apply: node lists over the stored ids and an id
\* that is not stored
ApplyInputs ==
    {[nodes |-> ns, edges |-> <<>>] :
        ns \in {<<Node("x", "other", Some(<<6, 6>>))>>,
                <<Node("y", "y", None)>>,
                <<Node("gone", "gone", Some(<<6, 6>>))>>,
                <<Node("x", "x", Some(<<0, 0>>)), Node("gone", "gone", None)>>,
                <<Node("y", "y", Some(<<6, 6>>)), Node("x", "x", Some(<<6, 6>>))>>,
                <<Node("x", "x", Some(<<0, 0>>)), Node("x", "x", Some(<<6, 6>>))>>}}

layout_add_node ==
    \E node \in LayoutNodeInputs :
        /\ graph' = add_node(graph, node)
        /\ call' = [op |-> "add_node"]
        /\ UNCHANGED server

layout_add_edge ==
    \E ab \in LayoutEndPairs :
        LET r == add_edge(graph, ab[1], ab[2], None)
        IN  /\ Len(graph.edges) < MaxLayoutEdges
            /\ IsOk(r.result)
            /\ graph' = r.graph
            /\ call' = [op |-> "add_edge"]
            /\ UNCHANGED server

call_layout_new ==
    /\ call' = [op |-> "Layout::new", result |-> LayoutNew(graph)]
    /\ UNCHANGED <<graph, server>>

call_apply ==
    \E nodes_edges \in ApplyInputs :
        LET r == apply(nodes_edges, graph)
        IN  /\ graph' = r.graph
            /\ call' = [op |-> "apply", nodes_edges |-> nodes_edges, result |-> r.result]
            /\ UNCHANGED server

NextLayout ==
    \/ layout_add_node
    \/ layout_add_edge
    \/ call_layout_new
    \/ call_apply

SpecLayout == Init /\ [][NextLayout]_vars

(***************************************************************************)
(* SpecIds: a StableIdAllocator used directly by a caller that releases     *)
(* only ids it holds.  next_id stays below MaxIds, far from the end of u32. *)
(***************************************************************************)
not_ids == <<gdata, lock, bgvars, exit_requested, reset_pending, wvars, rpc, pubvars>>

call_acquire_id ==
    LET r == acquire_id(allocator)
    IN  /\ r.allocator.next_id <= MaxIds
        /\ allocator' = r.allocator
        /\ outstanding' = outstanding \cup {r.id}
        /\ call' = [op |-> "acquire_id", id |-> r.id]
        /\ UNCHANGED not_ids

call_release_id ==
    \E id_value \in outstanding :
        /\ allocator' = release_id(allocator, id_value)
        /\ outstanding' = outstanding \ {id_value}
        /\ call' = [op |-> "release_id", id |-> id_value]
        /\ UNCHANGED not_ids

NextIds == call_acquire_id \/ call_release_id

SpecIds == Init /\ [][NextIds]_vars

(***************************************************************************)
(* SpecFault: SpecPub with ticks that fail.  No request of the handlers     *)
(* makes update_layout, step or apply return an Err, so the Err is put in   *)
(* from outside: update_layout returns one (GraphData is as it was), or     *)
(* apply returns one after it has written the positions of some nodes.      *)
(***************************************************************************)
do_layout_fails ==
    /\ spc = "tick"
    /\ ~is_empty(graph)
    /\ \/ TickReturn([graph |-> graph, layout |-> layout, result |-> Err("GraphDataError")])
       \/ \E positions \in SimPositions(Len(graph.nodes)), k \in 0..(Len(graph.nodes) - 1) :
              LET built == update_layout(graph, layout)
                  st == step(built[2], positions)
                  ap == ApplyFrom(SubSeq(st.nodes_edges.nodes, 1, k), 1, graph)
              IN  TickReturn([graph |-> ap.graph, layout |-> Some(st.layout),
                              result |-> Err("LayoutError")])

NextFault == NextPub \/ do_layout_fails

SpecFault == Init /\ [][NextFault]_vars

(***************************************************************************)
(* SpecLock: the tasks that take the Mutex, with ticks that may fail, under *)
(* the scheduling of SpecFair: the background task, the writer of SpecPub   *)
(* and the readers.                                                         *)
(***************************************************************************)
NextLock ==
    \/ BgNext
    \/ do_layout_fails
    \/ \E w \in PubWriters : pub_add_enter(w) \/ handler_item(w) \/ handler_return(w)
    \/ \E r \in Readers : ReaderNext(r)

SpecLock == Init /\ [][NextLock]_vars /\ Fairness

(***************************************************************************)
(* SpecExit: the server with a client that may call BgControl::exit, under  *)
(* the scheduling of SpecFair; its other clients are the writer of SpecPub  *)
(* and the readers.                                                         *)
(***************************************************************************)
NextExit ==
    \/ BgNext
    \/ exit
    \/ \E w \in PubWriters : pub_add_enter(w) \/ handler_item(w) \/ handler_return(w)
    \/ \E r \in Readers : ReaderNext(r)

SpecExit == Init /\ [][NextExit]_vars /\ Fairness

(***************************************************************************)
(* Properties of the running server.                                        *)
(***************************************************************************)
\* the tasks inside a critical section on GraphData
InCritical ==
    (IF spc \in {"tick", "snapshot"} THEN {Bg} ELSE {})
        \cup {w \in Writers : wpc[w] = "body"}
        \cup {r \in Readers : rpc[r] = "snapshot"}

\* C1: at most one of the tick, the snapshot for publishing, a writer request
\* and a reader request is inside its critical section, so a tick or a
\* snapshot never runs while a writer request has applied only part of its
\* edits.
C1_MutualExclusion ==
    /\ Cardinality(InCritical) <= 1
    /\ (spc \in {"tick", "snapshot"} \/ \E r \in Readers : rpc[r] = "snapshot")
           => \A w \in Writers : wpc[w] = "idle" /\ wreq[w] = <<>>
    /\ lock = Free <=> InCritical = {}
    /\ lock # Free => InCritical = {lock}

\* C1 witness: a writer request has applied its first edit and not its
\* second while the background task waits for the lock
C1_Witness ==
    /\ \E w \in Writers :
           /\ wpc[w] = "body"
           /\ Len(wreq[w]) = 1
           /\ wreq[w][1].t = "edge"
           /\ Len(graph.nodes) = 1
           /\ Len(graph.edges) = 0
    /\ spc = "do_layout"

LayoutMatchesGraph(l, g) ==
    /\ Len(l.nodes) = Len(g.nodes)
    /\ \A i \in 1..Len(g.nodes) : l.nodes[i].id = g.nodes[i].id
    /\ IsOk(graph_response(g))
    /\ l.edges = graph_response(g)[2].edges

\* C2: whenever the lock is free, the cached Layout is absent or its node
\* list (by stable id) and its edge list are those of the current Graph.
C2_CachedLayoutValid ==
    lock = Free => (layout = None \/ LayoutMatchesGraph(Unwrap(layout), graph))

\* C2 witness: a Layout built after a second edit is cached and stepped
C2_Witness ==
    /\ lock = Free
    /\ layout # None
    /\ writes = 2
    /\ Len(graph.nodes) = 2
    /\ Len(graph.edges) >= 1
    /\ Unwrap(layout).ticks >= 1

\* a step that ends an iteration of run
IterationEnds == spc \in {"sleep", "snapshot"} /\ spc' = "loop"

\* C3: in every iteration an Update is sent iff not both the previous and the
\* current iteration were finished.
C3_PublishSuppression ==
    [][IterationEnds => (iter_sent' <=> ~(was_finished /\ is_finished))]_vars

\* C3 witness: an iteration of a non-empty graph ended without an Update
C3_Witness ==
    /\ spc = "loop"
    /\ ~iter_sent
    /\ was_finished
    /\ ~is_empty(graph)
    /\ layout # None

\* C4: from the first finished iteration on, and as long as the flag stays
\* true, exactly one Update has been sent (the one of that first iteration).
C4_OneSettledUpdate ==
    /\ was_finished => settled_sent = 1
    /\ ~was_finished => settled_sent = 0

\* C4 witness: a non-empty graph settled, its one Update was sent, and a
\* later iteration sent nothing
C4_Witness ==
    /\ spc = "loop"
    /\ was_finished
    /\ ~iter_sent
    /\ settled_sent = 1
    /\ ~is_empty(graph)
    /\ layout # None
    /\ Unwrap(layout).ticks = TicksToFinish

\* C5: the tick that follows a reset_layout on a non-empty graph builds a
\* Layout from the Graph as it is then, steps that one (it has done one
\* tick), and reports finished = false.
C5_RebuildAfterReset ==
    [][(spc = "tick" /\ spc' # "tick" /\ reset_pending /\ ~is_empty(graph))
       => /\ spc' = "sleep"
          /\ layout' # None
          /\ LayoutMatchesGraph(Unwrap(layout'), graph)
          /\ LayoutMatchesGraph(Unwrap(layout'), graph')
          /\ Unwrap(layout').ticks = 1
          /\ is_finished' = FALSE]_vars

\* C5 witness: the Layout was rebuilt after an edit that arrived when the
\* previous Layout had finished
C5_Witness ==
    /\ spc = "sleep"
    /\ was_finished
    /\ ~is_finished
    /\ writes = 2
    /\ layout # None
    /\ Unwrap(layout).ticks = 1

Quiet == \A w \in Writers : wpc[w] = "idle"

\* C6: a tick reuses the cached Layout (same nodes, same edges, one more
\* tick done), and once no writer request occurs any more the finished flag
\* eventually becomes true and stays true.
C6_Convergence ==
    /\ [][(spc = "tick" /\ spc' = "sleep" /\ layout # None)
          => /\ layout' # None
             /\ Unwrap(layout').nodes = Unwrap(layout).nodes
             /\ Unwrap(layout').edges = Unwrap(layout).edges
             /\ Unwrap(layout').links = Unwrap(layout).links
             /\ Unwrap(layout').ticks =
                    (IF Unwrap(layout).ticks < TicksToFinish
                     THEN Unwrap(layout).ticks + 1 ELSE TicksToFinish)]_vars
    /\ (<>[]Quiet) => <>[](is_finished /\ was_finished)

\* C6 witness: a non-empty graph whose cached Layout has done all its ticks
\* and whose iteration reported finished
C6_Witness ==
    /\ ~is_empty(graph)
    /\ layout # None
    /\ Unwrap(layout).ticks = TicksToFinish
    /\ is_finished
    /\ was_finished
    /\ Quiet
    /\ writes = MaxWrites

\* a step in which do_layout returns
TickDone == spc = "tick" /\ spc' # "tick"

\* C12: an iteration that finds the graph with zero nodes constructs no
\* Layout (the cached Layout is absent before and after it) and leaves the
\* Graph unchanged; a graph with zero nodes never has a cached Layout.
C12_IdleAllocatesNothing ==
    /\ [](is_empty(graph) => layout = None)
    /\ [][(TickDone /\ is_empty(graph))
          => /\ graph' = graph
             /\ layout = None
             /\ layout' = None
             /\ iter_empty'
             /\ spc' = "sleep"]_vars

\* C12 witness: an idle iteration that is not the first one, after a writer
\* request that left the graph empty had reset the Layout
C12_Witness ==
    /\ spc = "sleep"
    /\ iter_empty
    /\ is_empty(graph)
    /\ layout = None
    /\ was_finished
    /\ writes >= 1

\* C13 (as claimed): an iteration whose do_layout found the graph with zero
\* nodes does not call send_update, so the channel accepts no Update in it;
\* this includes the first iteration after start.
C13_IdlePublishesNothing ==
    [][(spc \in {"sleep", "send_update", "snapshot"} /\ iter_empty)
       => /\ spc' \notin {"send_update", "snapshot"} \ {spc}
          /\ sent_log' = sent_log]_vars

LoopOver == spc \in {"ended", "panicked"}

\* C14: the loop ends only at the start of an iteration and only with the
\* flag set; with the flag set it does end there; at most one do_layout is
\* begun after exit() stored the flag; an iteration in progress goes on
\* through its tick, its sleep and its publish decision as without the flag;
\* and once the flag is set the loop eventually ends.
C14_CooperativeShutdown ==
    /\ [](ticks_after_exit <= 1)
    /\ [][/\ (spc' = "ended" /\ spc # "ended") => (spc = "loop" /\ exit_requested)
          /\ (spc = "loop" /\ spc' # "loop")
                 => spc' = (IF exit_requested THEN "ended" ELSE "do_layout")
          /\ (spc = "do_layout" /\ spc' # spc) => spc' = "tick"
          /\ TickDone => spc' = "sleep"
          /\ (spc = "sleep" /\ spc' # spc)
                 => spc' = (IF should_send(was_finished, is_finished)
                            THEN "send_update" ELSE "loop")
          /\ (spc = "send_update" /\ spc' # spc) => spc' = "snapshot"
          /\ (spc = "snapshot" /\ spc' # spc) => (spc' = "loop" /\ iter_sent')]_vars
    /\ exit_requested ~> LoopOver

\* C14 witness: the flag was set while an iteration was about to tick; that
\* iteration ticked a non-empty graph, slept and published, and the loop is
\* back at its start with the flag set
C14_Witness ==
    /\ exit_requested
    /\ ticks_after_exit = 1
    /\ spc = "loop"
    /\ iter_sent
    /\ ~iter_empty
    /\ layout # None

\* C15: a do_layout that returns an Err ends the loop in that iteration (the
\* task panics at expect and never reaches the sleep), no Update is sent in
\* that iteration, and the ended task never ticks or sends again.
C15_TickFailureFatal ==
    /\ [](tick_failed => spc = "panicked")
    /\ [][/\ (TickDone /\ tick_failed') => (spc' = "panicked" /\ sent_log' = sent_log)
          /\ spc = "panicked"
                 => /\ spc' = "panicked"
                    /\ sent_log' = sent_log
                    /\ UNCHANGED <<was_finished, is_finished, iter_sent, tick_failed>>
                    /\ layout' \in {layout, None}]_vars

\* C15 witness: a tick failed after an earlier iteration had published to a
\* live subscriber, and a writer request arrived after the loop had ended
C15_Witness ==
    /\ spc = "panicked"
    /\ tick_failed
    /\ Len(sent_log) >= 1
    /\ rx["s1"].st = "live"
    /\ \E w \in Writers : wpc[w] = "body"

\* C16 (as claimed): updates() returns to its caller in every case: with a
\* Receiver that starts at the current tail while the Sender lives, and
\* with a normal "no further updates" outcome once the loop has ended; no
\* caller of updates() panics.
C16_SubscribeReportsGone ==
    \A s \in Subscribers :
        /\ rx[s].st # "panicked"
        /\ rx[s].st = "live" => rx[s].joined <= chan.tail

IsClosed(result) == result[1] = "Err" /\ result[2][1] = "Closed"
IsLagged(result) == result[1] = "Err" /\ result[2][1] = "Lagged"

\* C17: the channel is closed exactly when the loop has ended (by exit or by
\* a failed tick); from then on no recv of a live Receiver stays pending: it
\* returns a retained Update while the Receiver is behind the tail, and
\* Closed once it has reached the tail, and Closed is returned in no other
\* case.
C17_PublisherLifetime ==
    /\ [](chan.closed <=> LoopOver)
    /\ [](\A s \in Subscribers :
             (rx[s].st = "live" /\ LoopOver)
                 => LET r == recv(chan, rx[s].next)
                    IN  /\ r.result # <<"Pending">>
                        /\ rx[s].next < chan.tail => (IsOk(r.result) \/ IsLagged(r.result))
                        /\ rx[s].next = chan.tail => IsClosed(r.result))
    /\ [][\A s \in Subscribers :
             (rx'[s] # rx[s] /\ IsClosed(rx'[s].last.result))
                 => (LoopOver /\ rx[s].next = chan.tail /\ rx'[s].next = rx[s].next)]_vars

\* C17 witness: the loop has ended while a live Receiver still has two
\* retained Updates to read
C17_Witness ==
    /\ LoopOver
    /\ chan.closed
    /\ rx["s1"].st = "live"
    /\ rx["s1"].next + 2 <= chan.tail

\* C21: the background task holds the lock exactly while it is inside
\* do_layout or inside the snapshot of send_update: not while it sleeps, not
\* while it waits for the lock, not after a failed tick; the step that ends
\* either of them releases the lock; and a held lock is always released
\* again, whoever holds it.
C21_LockNotHeldAsleep ==
    /\ [](lock = Bg <=> spc \in {"tick", "snapshot"})
    /\ [](spc \in {"sleep", "do_layout", "send_update", "loop", "ended", "panicked"}
             => lock # Bg)
    /\ [][(spc \in {"tick", "snapshot"} /\ spc' # spc) => lock' = Free]_vars
    /\ (lock # Free) ~> (lock = Free)

\* C21 witness: a writer holds the lock and edits a non-empty graph while
\* the background task sleeps
C21_Witness ==
    /\ spc = "sleep"
    /\ lock = "w1"
    /\ wpc["w1"] = "body"
    /\ wreq["w1"] # <<>>
    /\ ~is_empty(graph)

(***************************************************************************)
(* Properties of the update distribution.                                   *)
(***************************************************************************)
\* a step in which subscriber s subscribes
Subscribed(s) == rx[s].st = "none" /\ rx'[s].st = "live"

\* a step in which a recv of subscriber s returns an Update
Received(s) ==
    /\ rx[s].st = "live"
    /\ rx'[s].st = "live"
    /\ rx'[s].next # rx[s].next
    /\ IsOk(rx'[s].last.result)

\* C18: a Receiver starts at the tail the channel has when it is created, so
\* every Update it returns was sent after that moment; the Updates it
\* returns are the ones sent, at strictly increasing positions; and a recv
\* changes neither the channel nor another subscriber's Receiver.
C18_NoReplayInOrder ==
    /\ [](\A s \in Subscribers :
             rx[s].st = "live" => (rx[s].joined <= rx[s].next /\ rx[s].next <= chan.tail))
    /\ [][\A s \in Subscribers :
             /\ Subscribed(s)
                    => /\ rx'[s].joined = chan.tail
                       /\ rx'[s].next = chan.tail
                       /\ rx'[s].joined = Len(sent_log)
             /\ Received(s)
                    => /\ rx'[s].last.pos >= rx[s].joined
                       /\ rx'[s].last.pos = rx[s].next
                       /\ rx'[s].next = rx[s].next + 1
                       /\ rx'[s].last.result = Ok(sent_log[rx'[s].last.pos + 1])
                       /\ IsOk(rx[s].last.result) => rx'[s].last.pos = rx[s].last.pos + 1
                       /\ chan' = chan
                       /\ \A t \in Subscribers \ {s} : rx'[t] = rx[t]]_vars

\* C18 witness: s2 subscribed after two Updates had been sent to s1; s1 has
\* read the first of them and s2 the first one sent after it joined
C18_Witness ==
    /\ rx["s1"].st = "live"
    /\ rx["s2"].st = "live"
    /\ rx["s1"].joined = 0
    /\ rx["s2"].joined = 2
    /\ IsOk(rx["s1"].last.result) /\ rx["s1"].last.pos = 0
    /\ IsOk(rx["s2"].last.result) /\ rx["s2"].last.pos = 2
    /\ chan.tail = 4

\* the Updates the channel holds that subscriber s has not read
Undelivered(s) == {i \in 1..Len(chan.buffer) : chan.buffer[i].pos >= rx[s].next}

\* a step in which a recv of subscriber s returns
RecvReturns(s) == rx[s].st = "live" /\ rx'[s].st = "live" /\ rx'[s] # rx[s]

\* the backlog of depth d: the channel holds at most d Updates a subscriber
\* has not read; a send with a Receiver present is accepted whatever the
\* Receivers have read; a recv of a subscriber more than d behind the tail
\* returns Lagged with the number of Updates dropped and moves the Receiver
\* to the oldest Update held; a recv of a subscriber at most d behind
\* returns the Update at its position.
BacklogHeld(d) ==
    /\ \A s \in Subscribers : rx[s].st = "live" => Cardinality(Undelivered(s)) <= d
    /\ chan.rx_cnt > 0
           => LET r == send(chan, [graph |-> <<"snapshot", Len(sent_log)>>])
              IN  IsOk(r.result) /\ r.chan.tail = chan.tail + 1

BacklogRecv(d) ==
         \A s \in Subscribers :
             RecvReturns(s)
                 => LET behind == chan.tail - rx[s].next
                    IN  /\ behind > d
                               => /\ IsLagged(rx'[s].last.result)
                                  /\ rx'[s].last.result[2][2] = behind - d
                                  /\ rx'[s].next = chan.tail - d
                                  /\ recv(chan, rx'[s].next).result
                                         = Ok(sent_log[chan.tail - d + 1])
                        /\ (behind >= 1 /\ behind <= d)
                               => /\ rx'[s].last.result = Ok(sent_log[rx[s].next + 1])
                                  /\ rx'[s].next = rx[s].next + 1

\* C19 (as claimed): the backlog has depth 10.
C19_BoundedBacklog ==
    [](BacklogHeld(channel_capacity)) /\ [][BacklogRecv(channel_capacity)]_vars

\* C19 (amended): the backlog has depth 16, the 10 of channel(10) rounded up
\* to a power of two.
C19_BoundedBacklogRounded ==
    [](BacklogHeld(16)) /\ [][BacklogRecv(16)]_vars

\* C19 witness: s1 fell two Updates behind the backlog and was told so,
\* while s2 has read everything
C19_Witness ==
    /\ rx["s1"].st = "live"
    /\ IsLagged(rx["s1"].last.result)
    /\ rx["s1"].last.result[2][2] = 2
    /\ rx["s1"].last.pos = 0
    /\ rx["s1"].next = 2
    /\ chan.tail = 18
    /\ rx["s2"].st = "live"
    /\ rx["s2"].next = chan.tail

\* a step in which send_update returns
SendDone == spc = "snapshot" /\ spc' # "snapshot"

\* C20: a send_update ends its iteration in the same way whether or not a
\* Receiver exists: the loop goes on to its next iteration, was_finished
\* takes the flag of the current tick and the iteration counts as sent; with
\* no Receiver the channel keeps nothing of the Update.
C20_SendWithoutSubscribers ==
    [][SendDone
       => /\ spc' = "loop"
          /\ was_finished' = is_finished
          /\ is_finished' = is_finished
          /\ iter_sent'
          /\ chan.rx_cnt = 0 => (chan' = chan /\ sent_log' = sent_log)
          /\ chan.rx_cnt > 0 => sent_log' = Append(sent_log, [graph |-> graph_response(graph)[2]])]_vars

\* C20 witness: of the two or more Updates sent for a graph that has
\* settled, the earlier ones found no Receiver and the last one was accepted
C20_Witness ==
    /\ spc = "loop"
    /\ was_finished
    /\ is_finished
    /\ ~is_empty(graph)
    /\ writes = 1
    /\ Len(sent_log) = 1
    /\ sent_log[1].graph.nodes # <<>>
    /\ rx["s1"].st = "live"

(***************************************************************************)
(* Properties of the Graph store.                                           *)
(***************************************************************************)
StoredNodeIds(g) == {g.nodes[i].id : i \in 1..Len(g.nodes)}
NodeSlots(g) == {i - 1 : i \in 1..Len(g.nodes)}
EdgeSlots(g) == {j - 1 : j \in 1..Len(g.edges)}
IsBijection(m) == \A p \in m, q \in m : (p[1] = q[1]) <=> (p[2] = q[2])

\* C7: the node map is a bijection between exactly the ids of the stored
\* nodes and exactly their slots, the node at the slot of id x has id x, and
\* resolve_node_id and resolve_node_index are inverse to each other on the
\* live ids and slots.
C7_NodeBijection ==
    /\ IsBijection(graph.node_id_map)
    /\ {p[1] : p \in graph.node_id_map} = StoredNodeIds(graph)
    /\ {p[2] : p \in graph.node_id_map} = NodeSlots(graph)
    /\ Cardinality(graph.node_id_map) = Len(graph.nodes)
    /\ \A x \in StoredNodeIds(graph) :
           LET r == resolve_node_index(graph, x)
           IN  /\ IsOk(r)
               /\ r[2] \in NodeSlots(graph)
               /\ graph.nodes[r[2] + 1].id = x
               /\ resolve_node_id(graph, r[2]) = Ok(x)
    /\ \A y \in NodeSlots(graph) :
           LET r == resolve_node_id(graph, y)
           IN  /\ IsOk(r)
               /\ resolve_node_index(graph, r[2]) = Ok(y)

\* C7 witness: two nodes and an edge are stored after calls of all three kinds
C7_Witness ==
    /\ Len(graph.nodes) = 2
    /\ Len(graph.edges) >= 1
    /\ call.op = "ensure_node"
    /\ \E i \in 1..2 : graph.nodes[i].label = "L"

\* C8 (as claimed): the edge map is a bijection between exactly the stored
\* edges' slots and their EdgeIds: every stored slot resolves to the id
\* recorded in its edge, every mapped id resolves to a stored edge carrying
\* it, and no two stored edges carry the same EdgeId.
C8_EdgeBijection ==
    /\ IsBijection(graph.edge_id_map)
    /\ \A j \in EdgeSlots(graph) : resolve_edge_id(graph, j) = Ok(graph.edges[j + 1].id)
    /\ \A p \in graph.edge_id_map :
           /\ p[2] \in EdgeSlots(graph)
           /\ graph.edges[p[2] + 1].id = p[1]
           /\ resolve_edge_index(graph, p[1]) = Ok(p[2])
    /\ \A i \in 1..Len(graph.edges), j \in 1..Len(graph.edges) :
           graph.edges[i].id = graph.edges[j].id => i = j

\* C9: add_edge with an endpoint that is no stored node returns NodeNotFound
\* and leaves the nodes, the edges and both maps unchanged; only id_counter
\* may have advanced.
C9_AddEdgeNotFound ==
    [][(/\ call'.op = "add_edge"
        /\ \/ call'.a \notin StoredNodeIds(graph)
           \/ call'.b \notin StoredNodeIds(graph))
       => /\ call'.result = Err("NodeNotFound")
          /\ graph'.nodes = graph.nodes
          /\ graph'.edges = graph.edges
          /\ graph'.node_id_map = graph.node_id_map
          /\ graph'.edge_id_map = graph.edge_id_map
          /\ graph'.id_counter >= graph.id_counter]_vars

\* C9 witness: a failed add_edge whose only trace is the advanced counter,
\* with one endpoint stored and an edge already present
C9_Witness ==
    /\ call.op = "add_edge"
    /\ call.result = Err("NodeNotFound")
    /\ call.edge_id = None
    /\ call.a \in StoredNodeIds(graph)
    /\ call.b \notin StoredNodeIds(graph)
    /\ graph.id_counter > Len(graph.edges)
    /\ Len(graph.edges) = 1

\* C10: add_node with an id that is already stored changes nothing (count,
\* label, position, slot and both maps), so exactly one node carries the id.
C10_AddNodeIdempotent ==
    [][call'.op = "add_node"
       => /\ call'.node.id \in StoredNodeIds(graph) => graph' = graph
          /\ Cardinality({i \in 1..Len(graph'.nodes) : graph'.nodes[i].id = call'.node.id}) = 1]_vars

\* C10 witness: an id was added again with another label and position and
\* the stored node kept its own
C10_Witness ==
    /\ call.op = "add_node"
    /\ \E i \in 1..Len(graph.nodes) :
           /\ graph.nodes[i].id = call.node.id
           /\ graph.nodes[i].label # call.node.label
           /\ graph.nodes[i].pos # call.node.pos
    /\ Cardinality(StoredNodeIds(graph)) = Len(graph.nodes)

MappedEdgeIds(g) == {p[1] : p \in g.edge_id_map}

\* C11: an add_edge without an id advances id_counter by at least one, the id
\* it generates (the "_gpe" form of the counter it leaves) is not in the edge
\* map as it was at the call, the edge it stores carries that id, and no Graph
\* call ever decreases id_counter.
C11_FreshGeneratedIds ==
    [][/\ graph'.id_counter >= graph.id_counter
       /\ (call'.op = "add_edge" /\ call'.edge_id = None)
              => /\ graph'.id_counter > graph.id_counter
                 /\ GpeFormat(graph'.id_counter) \notin MappedEdgeIds(graph)
                 /\ \A n \in (graph.id_counter + 1)..(graph'.id_counter - 1) :
                        GpeFormat(n) \in MappedEdgeIds(graph)
                 /\ IsOk(call'.result)
                        => /\ Len(graph'.edges) = Len(graph.edges) + 1
                           /\ graph'.edges[Len(graph'.edges)].id = GpeFormat(graph'.id_counter)
                           /\ graph'.edges[Len(graph'.edges)].id \notin MappedEdgeIds(graph)
                           /\ resolve_edge_index(graph', GpeFormat(graph'.id_counter))
                                  = Ok(Len(graph.edges))]_vars

\* C11 witness: the generator skipped "_gpe2", which had been supplied
\* explicitly for the first edge, and stored the second edge under "_gpe3"
C11_Witness ==
    /\ call.op = "add_edge"
    /\ call.edge_id = None
    /\ IsOk(call.result)
    /\ call.counter_before = 1
    /\ graph.id_counter = 3
    /\ Len(graph.edges) = 2
    /\ graph.edges[1].id = "_gpe2"
    /\ graph.edges[2].id = "_gpe3"

(***************************************************************************)
(* Properties of the positions and snapshots in the running server.         *)
(***************************************************************************)
HasPos(g, i) == g.nodes[i].pos # None

\* C24: a stored node that has a position has one after every step of a
\* request handler (add_node, also of its own id without a position,
\* ensure_node, add_edge, reset_layout) and of the scheduler, and stays the
\* node of its slot; when a tick returns Ok every stored node has a position.
C24_PositionsPersist ==
    /\ [][\A i \in 1..Len(graph.nodes) :
              HasPos(graph, i) =>
                  /\ i <= Len(graph'.nodes)
                  /\ graph'.nodes[i].id = graph.nodes[i].id
                  /\ HasPos(graph', i)]_vars
    /\ [][(TickDone /\ ~tick_failed')
              => \A i \in 1..Len(graph'.nodes) : HasPos(graph', i)]_vars

\* C24 witness: a tick gave "a" the position the simulation reported, a
\* request came after it (the Layout is reset and not yet rebuilt) and has
\* returned, having added "b" without a position and an edge; "a" still has
\* the position of the tick
C24_Witness ==
    /\ reset_pending
    /\ layout = None
    /\ lock = Free
    /\ \A w \in Writers : wpc[w] = "idle"
    /\ Len(graph.nodes) = 2
    /\ Len(graph.edges) >= 1
    /\ \E i, j \in 1..2 :
           /\ graph.nodes[i].id = "a" /\ graph.nodes[i].pos = Some(<<2, 2>>)
           /\ graph.nodes[j].id = "b" /\ graph.nodes[j].pos = None

\* every edge triple of a GraphResponse names ids of its node list
ResponseClosed(resp) ==
    \A j \in 1..Len(resp.edges) :
        /\ resp.edges[j][1] \in {resp.nodes[i].id : i \in 1..Len(resp.nodes)}
        /\ resp.edges[j][2] \in {resp.nodes[i].id : i \in 1..Len(resp.nodes)}

\* C25: in every state both endpoints of every stored edge are slots of stored
\* nodes, building the GraphResponse does not fail on a missing endpoint, the
\* source and target ids of each of its edge triples are ids of its node list
\* and are the ids of the nodes at the edge's slots; the same holds of every
\* Update that was sent.
C25_ReferentialIntegrity ==
    /\ \A j \in 1..Len(graph.edges) :
           /\ graph.edges[j].source \in NodeSlots(graph)
           /\ graph.edges[j].target \in NodeSlots(graph)
    /\ IsOk(graph_response(graph))
    /\ ResponseClosed(graph_response(graph)[2])
    /\ \A j \in 1..Len(graph.edges) :
           /\ graph_response(graph)[2].edges[j][1] = graph.nodes[graph.edges[j].source + 1].id
           /\ graph_response(graph)[2].edges[j][2] = graph.nodes[graph.edges[j].target + 1].id
    /\ \A k \in 1..Len(sent_log) : ResponseClosed(sent_log[k].graph)

\* C25 witness: list or send_update is taking the snapshot of a graph with
\* MaxEdges edges, one of them between two different nodes
C25_Witness ==
    /\ spc = "snapshot" \/ \E r \in Readers : rpc[r] = "snapshot"
    /\ Len(graph.edges) = MaxEdges
    /\ \E j \in 1..Len(graph.edges) :
           graph_response(graph)[2].edges[j][1] # graph_response(graph)[2].edges[j][2]

\* the links of Layout l index its node list and meet the ids of its edges
LinksAgree(l) ==
    /\ Len(l.links) = Len(l.edges)
    /\ \A j \in 1..Len(l.links) :
           /\ l.links[j][1] \in 0..(Len(l.nodes) - 1)
           /\ l.links[j][2] \in 0..(Len(l.nodes) - 1)
           /\ l.nodes[l.links[j][1] + 1].id = l.edges[j][1]
           /\ l.nodes[l.links[j][2] + 1].id = l.edges[j][2]

\* C27: in every Layout the scheduler has built, each link handed to the
\* simulation is a pair of indices into the Layout's node list, and the nodes
\* at the two indices carry the stable ids of the source and the target of the
\* edge the link was made from; the Layout has one link per stored edge.
C27_LinksAgree ==
    layout # None =>
        /\ LinksAgree(Unwrap(layout))
        /\ Len(Unwrap(layout).links) = Len(graph.edges)
        /\ \A j \in 1..Len(graph.edges) :
               /\ Unwrap(layout).edges[j][1] = graph.nodes[graph.edges[j].source + 1].id
               /\ Unwrap(layout).edges[j][2] = graph.nodes[graph.edges[j].target + 1].id
               /\ Unwrap(layout).edges[j][3] = graph.edges[j].id

\* C27 witness: a Layout of the nodes "b", "a" in that order, with the link
\* (1, 0) of an edge from "a" to "b"
C27_Witness ==
    /\ layout # None
    /\ Len(Unwrap(layout).nodes) = 2
    /\ Unwrap(layout).nodes[1].id = "b"
    /\ \E j \in 1..Len(Unwrap(layout).links) :
           /\ Unwrap(layout).links[j] = <<1, 0>>
           /\ Unwrap(layout).edges[j][1] = "a"
           /\ Unwrap(layout).edges[j][2] = "b"

\* C28: in every state of the running server in which the scheduler is
\* about to tick, do_layout returns Ok whatever positions the simulation
\* reports; no tick has failed, and run has not ended through the expect.
C28_TicksCannotFail ==
    /\ ~tick_failed
    /\ spc # "panicked"
    /\ spc = "tick" =>
           \A positions \in SimPositions(Len(graph.nodes)) :
               IsOk(do_layout(graph, layout, positions).result)

\* C28 witness: a tick has returned Ok on a Layout rebuilt after the last of
\* MaxWrites requests, for a graph of two nodes and MaxEdges edges
C28_Witness ==
    /\ spc = "sleep"
    /\ ~tick_failed
    /\ writes = MaxWrites
    /\ ~reset_pending
    /\ \A w \in Writers : wpc[w] = "idle"
    /\ Len(graph.nodes) = 2
    /\ Len(graph.edges) = MaxEdges
    /\ layout # None
    /\ Unwrap(layout).ticks = 1

\* C29: the Update published in an iteration is the graph the tick of that
\* iteration left: between the return of do_layout and the snapshot of
\* send_update the graph does not change, and every node of every Update that
\* was sent has a position.
C29_PublishedIsTicked ==
    /\ [][(spc \in {"sleep", "send_update"} /\ should_send(was_finished, is_finished))
              => graph' = graph]_vars
    /\ [](\A k \in 1..Len(sent_log) :
              \A i \in 1..Len(sent_log[k].graph.nodes) :
                  sent_log[k].graph.nodes[i].pos # None)

\* the iteration of run that just ended called send_update; the graph is the
\* one of its snapshot
JustSent == spc = "loop" /\ iter_sent

\* C30: while exit is never requested and scheduling is fair, whenever a
\* handler has entered since the last tick and the graph holds a k-th node or
\* a k-th edge, an iteration follows that publishes a snapshot holding that
\* node or edge, whether or not the layout had settled before.
C30_EditsPublished ==
    /\ \A k \in 1..Cardinality(NodeIds) :
           (reset_pending /\ Len(graph.nodes) >= k) ~> (JustSent /\ Len(graph.nodes) >= k)
    /\ \A k \in 1..MaxEdges :
           (reset_pending /\ Len(graph.edges) >= k) ~> (JustSent /\ Len(graph.edges) >= k)

\* C30 witness: send_update is taking the snapshot of a graph of two nodes and
\* an edge in the iteration after a finished one; the Layout was rebuilt after
\* the last of MaxWrites requests and has done its first tick
C30_Witness ==
    /\ spc = "snapshot"
    /\ lock = Bg
    /\ was_finished
    /\ ~is_finished
    /\ writes = MaxWrites
    /\ Len(graph.nodes) = 2
    /\ Len(graph.edges) >= 1
    /\ layout # None
    /\ Unwrap(layout).ticks = 1

(***************************************************************************)
(* Properties of the Layout (SpecLayout).                                   *)
(***************************************************************************)
\* the slots of the nodes joined to slot i by an edge, in either direction
NeighbourSlots(g, i) ==
    {j \in 1..Len(g.nodes) :
        \E k \in 1..Len(g.edges) :
            \/ g.edges[k].source = i - 1 /\ g.edges[k].target = j - 1
            \/ g.edges[k].target = i - 1 /\ g.edges[k].source = j - 1}

PositionedNeighbours(g, i) == {j \in NeighbourSlots(g, i) : g.nodes[j].pos # None}

RECURSIVE SumOver(_, _, _)
SumOver(g, S, c) ==
    IF S = {} THEN 0
    ELSE LET j == CHOOSE x \in S : TRUE
         IN  Unwrap(g.nodes[j].pos)[c] + SumOver(g, S \ {j}, c)

\* the arithmetic mean of the positions of the positioned neighbours of slot i
MeanOfNeighbours(g, i) ==
    LET S == PositionedNeighbours(g, i)
    IN  IF S = {} THEN None
        ELSE Some(<<SumOver(g, S, 1) \div Cardinality(S), SumOver(g, S, 2) \div Cardinality(S)>>)

LayoutBuilt == call.op = "Layout::new" /\ IsOk(call.result)

\* C22: when a Layout is constructed, a node without a stored position is
\* seeded with the arithmetic mean of the positions its neighbours have in the
\* graph (unpositioned neighbours skipped), stays unseeded when it has no
\* positioned neighbour, and a node with a position keeps it.
C22_WarmStart ==
    LayoutBuilt =>
        /\ Len(call.result[2].nodes) = Len(graph.nodes)
        /\ \A i \in 1..Len(graph.nodes) :
               call.result[2].nodes[i] =
                   [graph.nodes[i] EXCEPT !.pos =
                       IF graph.nodes[i].pos # None THEN graph.nodes[i].pos
                       ELSE MeanOfNeighbours(graph, i)]

\* C22, the part the code does keep: positioned nodes keep their position,
\* nodes without a positioned neighbour stay unseeded, a node whose positioned
\* neighbours all sit at one place is seeded at that place, and positions
\* seeded in the same construction are not used.
C22_KeptAndUnseeded ==
    LayoutBuilt =>
        \A i \in 1..Len(graph.nodes) :
            LET S == PositionedNeighbours(graph, i)
                seeded == call.result[2].nodes[i].pos
            IN  /\ graph.nodes[i].pos # None => seeded = graph.nodes[i].pos
                /\ (graph.nodes[i].pos = None /\ S = {}) => seeded = None
                /\ (graph.nodes[i].pos = None /\ S # {}
                        /\ \A j, k \in S : graph.nodes[j].pos = graph.nodes[k].pos)
                       => \A j \in S : seeded = graph.nodes[j].pos

\* C23: apply returns the NodeNotFound error to its caller exactly when some
\* node id of the result is not stored in the graph, whether or not that node
\* carries a position and whatever was applied before it.
C23_ApplyNotFound ==
    [][call'.op = "apply" =>
          LET ns == call'.nodes_edges.nodes
              missing == {k \in 1..Len(ns) : ns[k].id \notin StoredNodeIds(graph)}
          IN  /\ missing # {} => call'.result = Err("NodeNotFound")
              /\ missing = {} => call'.result = Ok("unit")]_vars

\* C23 witness: apply failed on the second node of a result, an id that is not
\* stored and carries no position, after the first node, a stored one
C23_Witness ==
    /\ call.op = "apply"
    /\ call.result = Err("NodeNotFound")
    /\ Len(call.nodes_edges.nodes) = 2
    /\ call.nodes_edges.nodes[1].id \in StoredNodeIds(graph)
    /\ call.nodes_edges.nodes[2].id \notin StoredNodeIds(graph)
    /\ call.nodes_edges.nodes[2].pos = None

\* the entries of a result that name id and carry a position
Positioning(ns, id) == {k \in 1..Len(ns) : ns[k].id = id /\ ns[k].pos # None}

\* C26: an apply that returns Ok leaves the number and order of the nodes,
\* their ids and labels, the edges, both maps and the id counter as they
\* were; a node named with a position in the result has the position of its
\* last such entry, every other node the position it had.
C26_ApplyFrame ==
    [][(call'.op = "apply" /\ IsOk(call'.result)) =>
          LET ns == call'.nodes_edges.nodes
          IN  /\ Len(graph'.nodes) = Len(graph.nodes)
              /\ graph'.edges = graph.edges
              /\ graph'.node_id_map = graph.node_id_map
              /\ graph'.edge_id_map = graph.edge_id_map
              /\ graph'.id_counter = graph.id_counter
              /\ \A i \in 1..Len(graph.nodes) :
                     LET named == Positioning(ns, graph.nodes[i].id)
                     IN  /\ graph'.nodes[i].id = graph.nodes[i].id
                         /\ graph'.nodes[i].label = graph.nodes[i].label
                         /\ named = {} => graph'.nodes[i].pos = graph.nodes[i].pos
                         /\ named # {} =>
                                graph'.nodes[i].pos =
                                    ns[CHOOSE k \in named : \A m \in named : m <= k].pos]_vars

\* C26 witness: apply wrote the position of a result that names "x" under
\* another label; "x" is the second stored node, kept its label, and the
\* first stored node and the edges are untouched
C26_Witness ==
    /\ call.op = "apply"
    /\ IsOk(call.result)
    /\ call.nodes_edges.nodes[1].id = "x"
    /\ call.nodes_edges.nodes[1].label = "other"
    /\ Len(graph.nodes) >= 2
    /\ Len(graph.edges) >= 1
    /\ graph.nodes[1].pos = None
    /\ graph.nodes[2] = Node("x", "x", Some(<<6, 6>>))

(***************************************************************************)
(* Properties of the handlers' edge loop (SpecOneWriter).                   *)
(***************************************************************************)
\* handler w is about to run ensure_node, ensure_node, add_edge for an edge
EdgeItemNext(w) ==
    /\ wpc[w] = "body"
    /\ wreq[w] # <<>>
    /\ Head(wreq[w]).t \in {"edge", "gv_edge"}

\* C31: an edge of an add request or of a graphviz body, for which the
\* handler calls ensure_node on both endpoint ids and then add_edge under the
\* one lock, is always stored: add_edge returns Ok, the handler goes on, the
\* new edge joins the slots of the two ids, the nodes stored before are as
\* they were, and each endpoint that was absent is a new node with label = id
\* and no position.
C31_EnsuredEdgeSucceeds ==
    [][\A w \in Writers :
          (EdgeItemNext(w) /\ wreq'[w] # wreq[w]) =>
              LET it == Head(wreq[w])
                  absent == {it.a, it.b} \ StoredNodeIds(graph)
                  n == Len(graph.nodes)
              IN  /\ wpc'[w] = "body"
                  /\ wreq'[w] = Tail(wreq[w])
                  /\ IsOk(apply_item(graph, it).result)
                  /\ Len(graph'.edges) = Len(graph.edges) + 1
                  /\ resolve_node_index(graph', it.a)
                         = Ok(graph'.edges[Len(graph'.edges)].source)
                  /\ resolve_node_index(graph', it.b)
                         = Ok(graph'.edges[Len(graph'.edges)].target)
                  /\ {it.a, it.b} \subseteq StoredNodeIds(graph')
                  /\ Len(graph'.nodes) = n + Cardinality(absent)
                  /\ \A i \in 1..n : graph'.nodes[i] = graph.nodes[i]
                  /\ \A i \in (n + 1)..Len(graph'.nodes) :
                         /\ graph'.nodes[i].id \in absent
                         /\ graph'.nodes[i] = Node(graph'.nodes[i].id, graph'.nodes[i].id, None)]_vars

\* C31 witness: the first request, still in its handler, has added node "a"
\* with a position and then an edge from "a" to "b": "a" is as it was added,
\* "b" is the placeholder, the edge joins their slots
C31_Witness ==
    /\ writes = 1
    /\ wpc["w1"] = "body"
    /\ wreq["w1"] = <<>>
    /\ graph.nodes = <<Node("a", "a", Some(<<0, 0>>)), Node("b", "b", None)>>
    /\ Len(graph.edges) = 1
    /\ graph.edges[1].source = 0
    /\ graph.edges[1].target = 1

(***************************************************************************)
(* Properties of the StableIdAllocator (SpecIds).                           *)
(***************************************************************************)
FreeIds(a) == {a.free_ids[i] : i \in 1..Len(a.free_ids)}

====
